---------------------------- MODULE Spec2Model ----------------------------
(***************************************************************************)
(* Model of src/utils.py (alert multiplets): the ellipse membership test,  *)
(* the overlap graph builder, the multiplet resolver and the weighted      *)
(* position aggregation.                                                   *)
(*                                                                         *)
(* Numbers.  The program computes in double precision; the model computes  *)
(* in fixed point.  Every angle (RA, DEC, error magnitude, offset) is an   *)
(* integer number of hundredths of a degree, so the literal 360 of the     *)
(* source is FullCircle = 36000.  Inequalities between quotients are       *)
(* cross-multiplied, which is exact.  cos and sin come from tables scaled  *)
(* by 10000 and products with them are rounded to the nearest unit.        *)
(***************************************************************************)
EXTENDS Integers, Sequences, FiniteSets, TLC

VARIABLES
    alerts,                          \* the catalog: index -> alert record
    multiplets,                      \* dict: alert index -> set of touching indices
    unresolved,                      \* history: multiplets as it was at line 119
    remove_multiplets_for_indices,   \* the indices marked for removal (lines 126-141)
    visited,                         \* (key, member) pairs the resolver loop has handled
    call,                            \* function under call and its arguments
    result,                          \* what the call returned or raised
    pc                               \* control position

vars == <<alerts, multiplets, unresolved, remove_multiplets_for_indices,
          visited, call, result, pc>>

-----------------------------------------------------------------------------
(* Fixed-point arithmetic                                                  *)

\* hundredths of a degree in d whole degrees
Deg(d) == d * 100

\* the 360 of lines 30-34 and 154
FullCircle == Deg(360)

Min2(a, b) == IF a <= b THEN a ELSE b
Max2(a, b) == IF a >= b THEN a ELSE b
Abs(a) == IF a >= 0 THEN a ELSE 0 - a

\* n / d rounded to the nearest integer (d > 0)
RoundDiv(n, d) == (2 * n + d) \div (2 * d)

\* 10000 * cos(k * 90/19 degrees), k = 0 .. 19: the cosines of
\* np.linspace(0, 90, 20)
QuarterCos == <<10000, 9966, 9864, 9694, 9458, 9158, 8795, 8372, 7891, 7357,
                6773, 6142, 5469, 4759, 4017, 3247, 2455, 1646, 826, 0>>

\* the table's representation of 1.0
TrigOne == QuarterCos[1]

\* number of boundary samples per quadrant (np.linspace(theta, theta + 90, 20))
NSamples == 20

-----------------------------------------------------------------------------
(* is_in_ellipse, lines 11-65, for one element of points                   *)

\* Contour with the boundary left out (< for <=)
ContourOpen(x, a, y, b) ==
    /\ a # 0
    /\ b # 0
    /\ x * x * b * b + y * y * a * a < a * a * b * b

\* (x^2 / a^2) + (y^2 / b^2) <= 1 as numpy evaluates it: a zero semi-axis
\* gives inf or nan, and the comparison is then False
Contour(x, a, y, b) ==
    /\ a # 0
    /\ b # 0
    /\ x * x * b * b + y * y * a * a <= a * a * b * b

\* tmp_ra of lines 28-35
RelativeRA(pRA, ra, ra_min, ra_max) ==
    LET tmp0 == pRA - ra
        tmp1 == IF ra + ra_max >= FullCircle THEN tmp0 % FullCircle ELSE tmp0
    IN  IF ra + ra_min <= 0 THEN 0 - ((0 - tmp1) % FullCircle) ELSE tmp1

is_in_ellipse(point, ra, dec, ra_err, dec_err) ==
    LET ra_min == Min2(ra_err[1], ra_err[2])
        ra_max == Max2(ra_err[1], ra_err[2])
        dec_min == Min2(dec_err[1], dec_err[2])
        dec_max == Max2(dec_err[1], dec_err[2])
        tmp_ra == RelativeRA(point.RA, ra, ra_min, ra_max)
        tmp_dec == point.DEC - dec
        mask1 == /\ tmp_ra >= 0 /\ tmp_ra <= ra_max
                 /\ tmp_dec >= 0 /\ tmp_dec <= dec_max
                 /\ Contour(tmp_ra, ra_max, tmp_dec, dec_max)
        mask2 == /\ tmp_ra >= 0 /\ tmp_ra <= ra_max
                 /\ tmp_dec <= 0 /\ tmp_dec >= dec_min
                 /\ Contour(tmp_ra, ra_max, tmp_dec, dec_min)
        mask3 == /\ tmp_ra <= 0 /\ tmp_ra >= ra_min
                 /\ tmp_dec <= 0 /\ tmp_dec >= dec_min
                 /\ Contour(tmp_ra, ra_min, tmp_dec, dec_min)
        mask4 == /\ tmp_ra <= 0 /\ tmp_ra >= ra_min
                 /\ tmp_dec >= 0 /\ tmp_dec <= dec_max
                 /\ Contour(tmp_ra, ra_min, tmp_dec, dec_max)
    IN  mask1 \/ mask2 \/ mask3 \/ mask4

\* the call of lines 105-107: is_in_ellipse with the probe's errors, the
\* negative ones negated
InEllipseOf(point, a) ==
    is_in_ellipse(point, a.RA, a.DEC,
                  <<a.RA_ERR_PLUS, 0 - a.RA_ERR_MINUS>>,
                  <<a.DEC_ERR_PLUS, 0 - a.DEC_ERR_MINUS>>)

-----------------------------------------------------------------------------
(* State shared by the specifications below.  Each specification runs one  *)
(* entry point of the module; the variables it does not use stay at these  *)
(* values.                                                                 *)

NoCatalog == <<>>
NoDict == <<>>
NoCall == [fn |-> "none"]
NoResult == [kind |-> "none"]

-----------------------------------------------------------------------------
(* Calls of is_in_ellipse                                                  *)

\* largest offset, in units, of a tested point from the ellipse center
MaxOffset == 6

EllipseRAs == {0, 4, Deg(180), FullCircle - 5, FullCircle - 2}
EllipseDECs == {0 - 200, 0}
EllipseErrs == {3, 5}
Offsets == (0 - MaxOffset) .. MaxOffset

InitEllipse ==
    /\ \E ra \in EllipseRAs, dec \in EllipseDECs,
          rp \in EllipseErrs, rm \in EllipseErrs,
          dp \in EllipseErrs, dm \in EllipseErrs,
          dx \in Offsets, dy \in Offsets, wrapped \in BOOLEAN :
          call = [fn |-> "is_in_ellipse",
                  point |-> [RA |-> IF wrapped THEN (ra + dx) % FullCircle
                                               ELSE ra + dx,
                             DEC |-> dec + dy],
                  ra |-> ra, dec |-> dec,
                  ra_err |-> <<rp, 0 - rm>>,
                  dec_err |-> <<dp, 0 - dm>>]
    /\ alerts = NoCatalog
    /\ multiplets = NoDict
    /\ unresolved = NoDict
    /\ remove_multiplets_for_indices = {}
    /\ visited = {}
    /\ result = NoResult
    /\ pc = "call"

CallIsInEllipse ==
    /\ pc = "call"
    /\ call.fn = "is_in_ellipse"
    /\ result' = [kind |-> "mask",
                  mask |-> is_in_ellipse(call.point, call.ra, call.dec,
                                         call.ra_err, call.dec_err)]
    /\ pc' = "done"
    /\ UNCHANGED <<alerts, multiplets, unresolved,
                   remove_multiplets_for_indices, visited, call>>

NextEllipse == CallIsInEllipse

SpecEllipse == InitEllipse /\ [][NextEllipse]_vars

-----------------------------------------------------------------------------
(* get_multiplet_index_dictionary, lines 68-145: the overlap graph         *)

\* the zip of lines 90-92: quadrant angle and the error pair it samples with
Quadrants ==
    { [theta |-> 0,   err_ra |-> "RA_ERR_PLUS",  err_dec |-> "DEC_ERR_PLUS"],
      [theta |-> 90,  err_ra |-> "RA_ERR_MINUS", err_dec |-> "DEC_ERR_PLUS"],
      [theta |-> 180, err_ra |-> "RA_ERR_MINUS", err_dec |-> "DEC_ERR_MINUS"],
      [theta |-> 270, err_ra |-> "RA_ERR_PLUS",  err_dec |-> "DEC_ERR_MINUS"] }

\* np.cos(np.deg2rad(t)) and np.sin(np.deg2rad(t)) for the k-th value of
\* t = np.linspace(theta, theta + 90, 20), k = 1 .. 20, in table units
CosT(theta, k) ==
    CASE theta = 0   -> QuarterCos[k]
      [] theta = 90  -> 0 - QuarterCos[NSamples + 1 - k]
      [] theta = 180 -> 0 - QuarterCos[k]
      [] theta = 270 -> QuarterCos[NSamples + 1 - k]

SinT(theta, k) ==
    CASE theta = 0   -> QuarterCos[NSamples + 1 - k]
      [] theta = 90  -> QuarterCos[k]
      [] theta = 180 -> 0 - QuarterCos[NSamples + 1 - k]
      [] theta = 270 -> 0 - QuarterCos[k]

\* lines 96-102: the points along the edge of alert a's ellipse in quadrant q
EdgePoints(a, q) ==
    { [RA  |-> RoundDiv(a[q.err_ra] * CosT(q.theta, k), TrigOne) + a.RA,
       DEC |-> RoundDiv(a[q.err_dec] * SinT(q.theta, k), TrigOne) + a.DEC] :
      k \in 1 .. NSamples }

\* lines 105-112: the alerts with an edge point of quadrant q inside the
\* ellipse of the probe tmp_index (np.any over the mask rows)
InEllipseMaskRows(cat, tmp_index, q) ==
    { i \in DOMAIN cat :
        \E p \in EdgePoints(cat[i], q) : InEllipseOf(p, cat[tmp_index]) }

\* AlertsInEllipse dropping every alert equal to the probe, not only the
\* probe's own index
AlertsInEllipseDropEqual(cat, tmp_index) ==
    { i \in UNION { InEllipseMaskRows(cat, tmp_index, q) : q \in Quadrants } :
        cat[i] # cat[tmp_index] }

\* lines 87-119 for one probe: the union over the quadrants, duplicates
\* dropped, the probe itself dropped
AlertsInEllipse(cat, tmp_index) ==
    (UNION { InEllipseMaskRows(cat, tmp_index, q) : q \in Quadrants })
        \ {tmp_index}

\* lines 80-119: the dictionary before the "double" multiplets are checked
TouchingDict(cat) ==
    [tmp_index \in DOMAIN cat |-> AlertsInEllipse(cat, tmp_index)]

-----------------------------------------------------------------------------
(* get_multiplet_index_dictionary, lines 122-145: the "double" multiplets   *)

\* MarkedFor keeping both entries of a mutual pair of equal sizes
MarkedForKeepTies(g, _index, _mult_index) ==
    IF _index \notin g[_mult_index] THEN {}
    ELSE IF Cardinality(g[_index]) < Cardinality(g[_mult_index])
         THEN {_index}
    ELSE IF Cardinality(g[_index]) > Cardinality(g[_mult_index])
         THEN {_mult_index}
    ELSE {}

\* MarkedFor with min for max in the tie-break
MarkedForMinOnTie(g, _index, _mult_index) ==
    IF _index \notin g[_mult_index] THEN {}
    ELSE IF Cardinality(g[_index]) < Cardinality(g[_mult_index])
         THEN {_index}
    ELSE IF Cardinality(g[_index]) > Cardinality(g[_mult_index])
         THEN {_mult_index}
    ELSE {Min2(_index, _mult_index)}

\* lines 131-141 for the key _index and its entry _mult_index, read from the
\* dictionary g: the indices appended to remove_multiplets_for_indices
MarkedFor(g, _index, _mult_index) ==
    IF _index \notin g[_mult_index] THEN {}
    ELSE IF Cardinality(g[_index]) < Cardinality(g[_mult_index])
         THEN {_index}
    ELSE IF Cardinality(g[_index]) > Cardinality(g[_mult_index])
         THEN {_mult_index}
    ELSE {Max2(_index, _mult_index)}

\* lines 126-141: everything the two loops append (the list is only read
\* for its elements, line 143, so it is kept as a set)
MarkedIndices(g) ==
    UNION { UNION { MarkedFor(g, i, m) : m \in g[i] } : i \in DOMAIN g }

\* Cleared with line 144 outside the loop of line 143: only the last index
\* of the list is reset
ClearedLastOnly(g, marked) ==
    [i \in DOMAIN g |->
        IF i \in marked /\ \A j \in marked : j <= i THEN {} ELSE g[i]]

\* lines 143-144
Cleared(g, marked) ==
    [i \in DOMAIN g |-> IF i \in marked THEN {} ELSE g[i]]

\* DictRead with the removals applied while the loops still run
DictReadInPlace(m, marked) ==
    [i \in DOMAIN m |-> IF i \in marked THEN {} ELSE m[i]]

\* the dictionary the loops of lines 127-141 read: multiplets itself, which
\* no line before 143 writes, whatever has been marked so far
DictRead(m, marked) == m

-----------------------------------------------------------------------------
(* Runs of get_multiplet_index_dictionary on a catalog                     *)

\* number of alerts in the catalog
NAlerts == 2

CatalogRAs == {50, Deg(180), FullCircle - 50}
CatalogDECs == {0}
RAPlusErrs == {50, 100}
RAMinusErrs == {100, 150}
DECErrs == {50, 100}

\* the alerts a catalog is drawn from; DEC_ERR_PLUS = DEC_ERR_MINUS here
CatalogAlerts ==
    { [RA |-> ra, DEC |-> dec, RA_ERR_PLUS |-> rp, RA_ERR_MINUS |-> rm,
       DEC_ERR_PLUS |-> de, DEC_ERR_MINUS |-> de] :
      ra \in CatalogRAs, dec \in CatalogDECs,
      rp \in RAPlusErrs, rm \in RAMinusErrs, de \in DECErrs }

Init ==
    /\ alerts \in [1 .. NAlerts -> CatalogAlerts]
    /\ multiplets = NoDict
    /\ unresolved = NoDict
    /\ remove_multiplets_for_indices = {}
    /\ visited = {}
    /\ call = [fn |-> "get_multiplet_index_dictionary"]
    /\ result = NoResult
    /\ pc = "touching"

\* lines 80-119
BuildTouchingDict ==
    /\ pc = "touching"
    /\ multiplets' = TouchingDict(alerts)
    /\ unresolved' = multiplets'
    /\ pc' = "double"
    /\ UNCHANGED <<alerts, remove_multiplets_for_indices, visited, call, result>>

\* lines 126-145
RemoveDoubleMultiplets ==
    /\ pc = "double"
    /\ remove_multiplets_for_indices' = MarkedIndices(multiplets)
    /\ multiplets' = Cleared(multiplets, remove_multiplets_for_indices')
    /\ result' = [kind |-> "multiplets", value |-> multiplets']
    /\ pc' = "done"
    /\ UNCHANGED <<alerts, unresolved, visited, call>>

Next == BuildTouchingDict \/ RemoveDoubleMultiplets

Spec == Init /\ [][Next]_vars

\* the probe's own edge always has a sample inside its ellipse, so
\* alerts_in_ellipse is never left None (line 87) for these catalogs
ProbeSeesItself ==
    \A i \in DOMAIN alerts :
        \E q \in Quadrants : i \in InEllipseMaskRows(alerts, i, q)

-----------------------------------------------------------------------------
(* Reference geometry the claims are stated with                           *)

\* x^2/a^2 + y^2/b^2 <= 1 for semi-axes a, b > 0, cross-multiplied; the two
\* bounds follow from the inequality and keep the products small
WithinContour(x, a, y, b) ==
    /\ Abs(x) <= a
    /\ Abs(y) <= b
    /\ x * x * b * b + y * y * a * a <= a * a * b * b

\* the quadrant-asymmetric ellipse of the data model: the offset (dRA, dDEC)
\* from the center satisfies the contour inequality for the semi-axes of a
\* quadrant its signs select
QuadrantInside(dRA, dDEC, rp, rm, dp, dm) ==
    \/ dRA >= 0 /\ dDEC >= 0 /\ WithinContour(dRA, rp, dDEC, dp)
    \/ dRA >= 0 /\ dDEC <= 0 /\ WithinContour(dRA, rp, dDEC, dm)
    \/ dRA <= 0 /\ dDEC <= 0 /\ WithinContour(dRA, rm, dDEC, dm)
    \/ dRA <= 0 /\ dDEC >= 0 /\ WithinContour(dRA, rm, dDEC, dp)

\* the RA offset reduced to [-180, 180) degrees
CircularOffset(pRA, ra) ==
    ((pRA - ra + FullCircle \div 2) % FullCircle) - FullCircle \div 2

\* the point lies in the ellipse of alert a, RA taken modulo 360
InEllipseMod360(point, a) ==
    LET dRA == CircularOffset(point.RA, a.RA)
        dDEC == point.DEC - a.DEC
    IN  QuadrantInside(dRA, dDEC, a.RA_ERR_PLUS, a.RA_ERR_MINUS,
                       a.DEC_ERR_PLUS, a.DEC_ERR_MINUS)

AllEdgePoints(a) == UNION { EdgePoints(a, q) : q \in Quadrants }

Straddles360(a) == a.RA + a.RA_ERR_PLUS >= FullCircle
Straddles0(a) == a.RA - a.RA_ERR_MINUS <= 0

\* C3: an alert P straddling 360 and an alert Q straddling 0, each with a
\* sampled edge point inside the other's ellipse modulo 360, list each other
\* in the dictionary of line 119
C3_WrapOverlapBothWays ==
    pc # "touching" =>
        \A P \in DOMAIN alerts, Q \in DOMAIN alerts :
            ( /\ P # Q
              /\ Straddles360(alerts[P])
              /\ Straddles0(alerts[Q])
              /\ \E p \in AllEdgePoints(alerts[Q]) : InEllipseMod360(p, alerts[P])
              /\ \E p \in AllEdgePoints(alerts[P]) : InEllipseMod360(p, alerts[Q]) )
            => (Q \in unresolved[P] /\ P \in unresolved[Q])

\* C4: the touching relation of line 119 is symmetric: for any two distinct
\* alerts A and B, B is in the entry of A exactly if A is in the entry of B
C4_TouchingSymmetric ==
    pc # "touching" =>
        \A A \in DOMAIN alerts, B \in DOMAIN alerts :
            A # B => (B \in unresolved[A] <=> A \in unresolved[B])

\* C4 as amended: two distinct alerts with identical position and identical
\* error magnitudes are each in the other's entry of the dictionary of
\* line 119
C4_Amended ==
    pc # "touching" =>
        \A A \in DOMAIN alerts, B \in DOMAIN alerts :
            (A # B /\ alerts[A] = alerts[B]) =>
                (B \in unresolved[A] /\ A \in unresolved[B])

\* the dictionary has been built for a catalog with two identical alerts
\* away from the 0/360 boundary, which list each other, and for one with two
\* identical alerts whose ellipses straddle the boundary
C4_Witness ==
    /\ pc # "touching"
    /\ \E A \in DOMAIN alerts, B \in DOMAIN alerts :
          /\ A # B
          /\ alerts[A] = alerts[B]
          /\ B \in unresolved[A]
          /\ A \in unresolved[B]
          /\ (Straddles0(alerts[A]) \/ Straddles360(alerts[A]))

-----------------------------------------------------------------------------
(* Claims about is_in_ellipse (SpecEllipse)                                *)

EllipseCallDone == pc = "done" /\ call.fn = "is_in_ellipse"

\* the four error magnitudes of the call
CallRAPlus == call.ra_err[1]
CallRAMinus == 0 - call.ra_err[2]
CallDECPlus == call.dec_err[1]
CallDECMinus == 0 - call.dec_err[2]

\* the ellipse of the call does not reach the 0/360 boundary
CallAwayFromBoundary ==
    /\ 0 < call.ra - CallRAMinus
    /\ call.ra + CallRAPlus < FullCircle

CallNonzeroAxes ==
    CallRAPlus # 0 /\ CallRAMinus # 0 /\ CallDECPlus # 0 /\ CallDECMinus # 0

\* C1: away from the 0/360 boundary and with four nonzero semi-axes, a point
\* is marked inside exactly if its offset satisfies the closed contour
\* inequality with the semi-axes of the quadrant its signs select
C1_QuadrantContour ==
    (EllipseCallDone /\ CallAwayFromBoundary /\ CallNonzeroAxes) =>
        ( result.mask <=>
            QuadrantInside(call.point.RA - call.ra, call.point.DEC - call.dec,
                           CallRAPlus, CallRAMinus, CallDECPlus, CallDECMinus) )

\* a point exactly on the contour of the fourth quadrant (dRA < 0 < dDEC) of
\* an ellipse away from the boundary has been tested and marked inside
C1_Witness ==
    LET dRA == call.point.RA - call.ra
        dDEC == call.point.DEC - call.dec
    IN  /\ EllipseCallDone /\ CallAwayFromBoundary /\ CallNonzeroAxes
        /\ dRA < 0 /\ dDEC > 0
        /\ CallRAPlus # CallRAMinus
        /\ dRA * dRA * CallDECPlus * CallDECPlus
             + dDEC * dDEC * CallRAMinus * CallRAMinus
           = CallRAMinus * CallRAMinus * CallDECPlus * CallDECPlus
        /\ result.mask

\* squared distance of the tested point from the center, RA taken modulo 360
CallDistSq ==
    LET dRA == CircularOffset(call.point.RA, call.ra)
        dDEC == call.point.DEC - call.dec
    IN  dRA * dRA + dDEC * dDEC

\* C2: with all four error magnitudes equal to r > 0, for every center,
\* every point strictly inside the circle of radius r is marked inside and
\* every point outside the circle of radius 1.001 r is marked outside
C2_CircleAnyCenter ==
    ( /\ EllipseCallDone
      /\ CallRAPlus > 0
      /\ CallRAMinus = CallRAPlus
      /\ CallDECPlus = CallRAPlus
      /\ CallDECMinus = CallRAPlus ) =>
        /\ CallDistSq < CallRAPlus * CallRAPlus => result.mask
        /\ CallDistSq * 1000000 > 1002001 * CallRAPlus * CallRAPlus
               => ~result.mask

-----------------------------------------------------------------------------
(* The "double" multiplet check on an arbitrary dictionary                 *)

\* number of alert indices in the dictionary
NNodes == 4

Nodes == 1 .. NNodes

\* a dictionary as line 119 can leave it: every index a key, no index in
\* its own entry (line 117)
InitResolve ==
    /\ \E others \in [Nodes -> SUBSET (1 .. NNodes - 1)] :
          multiplets =
              [i \in Nodes |->
                  { IF k < i THEN k ELSE k + 1 : k \in others[i] }]
    /\ unresolved = multiplets
    /\ alerts = NoCatalog
    /\ remove_multiplets_for_indices = {}
    /\ visited = {}
    /\ call = [fn |-> "get_multiplet_index_dictionary"]
    /\ result = NoResult
    /\ pc = "double"

NextResolve == RemoveDoubleMultiplets

SpecResolve == InitResolve /\ [][NextResolve]_vars

-----------------------------------------------------------------------------
(* The "double" multiplet check, one (key, entry) pair at a time and in    *)
(* any order of the keys and of their entries                              *)

\* number of alert indices in the dictionary whose pairs are visited one by one
NOrder == 3

InitOrder ==
    /\ \E others \in [1 .. NOrder -> SUBSET (1 .. NOrder - 1)] :
          multiplets =
              [i \in 1 .. NOrder |->
                  { IF k < i THEN k ELSE k + 1 : k \in others[i] }]
    /\ unresolved = multiplets
    /\ alerts = NoCatalog
    /\ remove_multiplets_for_indices = {}
    /\ visited = {}
    /\ call = [fn |-> "get_multiplet_index_dictionary"]
    /\ result = NoResult
    /\ pc = "double"

\* lines 130-141 for one _index and one _mult_index of its entry
VisitPair(_index, _mult_index) ==
    /\ pc = "double"
    /\ <<_index, _mult_index>> \notin visited
    /\ LET g == DictRead(multiplets, remove_multiplets_for_indices)
       IN  /\ _mult_index \in g[_index]
           /\ remove_multiplets_for_indices' =
                  remove_multiplets_for_indices
                      \cup MarkedFor(g, _index, _mult_index)
    /\ visited' = visited \cup {<<_index, _mult_index>>}
    /\ UNCHANGED <<alerts, multiplets, unresolved, call, result, pc>>

\* lines 143-145, once both loops are through
ApplyRemovals ==
    /\ pc = "double"
    /\ LET g == DictRead(multiplets, remove_multiplets_for_indices)
       IN  \A i \in DOMAIN g : \A m \in g[i] : <<i, m>> \in visited
    /\ multiplets' = Cleared(multiplets, remove_multiplets_for_indices)
    /\ result' = [kind |-> "multiplets", value |-> multiplets']
    /\ pc' = "done"
    /\ UNCHANGED <<alerts, unresolved, remove_multiplets_for_indices,
                   visited, call>>

NextOrder ==
    \/ \E i \in DOMAIN multiplets, m \in DOMAIN multiplets : VisitPair(i, m)
    \/ ApplyRemovals

SpecOrder == InitOrder /\ [][NextOrder]_vars

-----------------------------------------------------------------------------
(* Claims about the "double" multiplet check                               *)

Mutual(g, A, B) == B \in g[A] /\ A \in g[B]

Symmetric(g) == \A A \in DOMAIN g, B \in DOMAIN g : B \in g[A] <=> A \in g[B]

\* C5: after the check no two alerts claim each other: of every mutual pair
\* of the dictionary of line 119 at least one entry has been cleared
C5_NoMutualPairLeft ==
    pc = "done" =>
        \A A \in DOMAIN multiplets, B \in DOMAIN multiplets :
            /\ ~Mutual(multiplets, A, B)
            /\ Mutual(unresolved, A, B)
                   => (multiplets[A] = {} \/ multiplets[B] = {})

\* a mutual pair of unequal sizes has been resolved: the larger entry is
\* kept, the smaller one cleared
C5_Witness ==
    /\ pc = "done"
    /\ \E A \in DOMAIN multiplets, B \in DOMAIN multiplets :
          /\ Mutual(unresolved, A, B)
          /\ Cardinality(unresolved[A]) > Cardinality(unresolved[B])
          /\ multiplets[A] = unresolved[A]
          /\ multiplets[B] = {}

\* the group of representative A: A and the members of its entry, if any
Group(g, A) == IF g[A] = {} THEN {} ELSE {A} \cup g[A]

\* C6: after the check on a symmetric dictionary each alert belongs to at
\* most one group
C6_AtMostOneGroup ==
    (pc = "done" /\ Symmetric(unresolved)) =>
        \A x \in DOMAIN multiplets :
            Cardinality({ A \in DOMAIN multiplets : x \in Group(multiplets, A) }) <= 1

\* C6 as amended: after the check on a symmetric dictionary no representative
\* of a non-empty group is a member of another group, and no alert is a
\* member of the groups of two representatives that touched each other
C6_Amended ==
    (pc = "done" /\ Symmetric(unresolved)) =>
        \A A \in DOMAIN multiplets, B \in DOMAIN multiplets :
            A # B =>
                /\ multiplets[A] # {} => A \notin multiplets[B]
                /\ B \in unresolved[A] => multiplets[A] \cap multiplets[B] = {}

\* a symmetric dictionary has been resolved into two non-empty groups that
\* share a member
C6_Witness ==
    /\ pc = "done"
    /\ Symmetric(unresolved)
    /\ \E A \in DOMAIN multiplets, B \in DOMAIN multiplets :
          A # B /\ multiplets[A] \cap multiplets[B] # {}

EqualSizeMutual(g, A, B) ==
    A < B /\ Mutual(g, A, B) /\ Cardinality(g[A]) = Cardinality(g[B])

\* C7: of a mutual pair A < B with entries of equal size the check clears
\* the entry of B and leaves the entry of A as it was
C7_TieBreak ==
    pc = "done" =>
        \A A \in DOMAIN multiplets, B \in DOMAIN multiplets :
            EqualSizeMutual(unresolved, A, B) =>
                (multiplets[B] = {} /\ multiplets[A] = unresolved[A])

\* alert x loses a mutual pair of g: against a larger entry, or against an
\* entry of equal size and a smaller index
LosesAPair(g, x) ==
    \E y \in g[x] :
        /\ x \in g[y]
        /\ \/ Cardinality(g[x]) < Cardinality(g[y])
           \/ Cardinality(g[x]) = Cardinality(g[y]) /\ y < x

\* C7 as amended: of a mutual pair A < B with entries of equal size the
\* check clears the entry of B; the entry of A is left as it was unless A
\* loses another of its mutual pairs, and is cleared if it does
C7_Amended ==
    pc = "done" =>
        \A A \in DOMAIN multiplets, B \in DOMAIN multiplets :
            EqualSizeMutual(unresolved, A, B) =>
                /\ multiplets[B] = {}
                /\ multiplets[A] =
                       IF LosesAPair(unresolved, A) THEN {} ELSE unresolved[A]

\* an equal-size mutual pair has been resolved in favour of the smaller
\* index, and another one has lost its smaller index to a third alert
C7_Witness ==
    /\ pc = "done"
    /\ \E A \in DOMAIN multiplets, B \in DOMAIN multiplets :
          /\ EqualSizeMutual(unresolved, A, B)
          /\ multiplets[A] = unresolved[A]
          /\ multiplets[B] = {}
    /\ \E A \in DOMAIN multiplets, B \in DOMAIN multiplets :
          /\ EqualSizeMutual(unresolved, A, B)
          /\ multiplets[A] = {}

\* C10: whatever the order in which the keys and their entries are visited,
\* the result is the dictionary of line 119 with an entry emptied exactly if
\* it was empty or its alert loses a mutual pair, every other entry unchanged
C10_OrderIndependent ==
    pc = "done" =>
        multiplets =
            [i \in DOMAIN unresolved |->
                IF unresolved[i] = {} \/ LosesAPair(unresolved, i)
                THEN {} ELSE unresolved[i]]

\* a dictionary with two mutual pairs, both visited from both sides, has
\* been resolved with one entry cleared and one kept
C10_Witness ==
    /\ pc = "done"
    /\ Cardinality(visited) >= 4
    /\ \E A \in DOMAIN unresolved, B \in DOMAIN unresolved, C \in DOMAIN unresolved :
          /\ A # C
          /\ Mutual(unresolved, A, B) /\ Mutual(unresolved, B, C)
          /\ multiplets[B] = unresolved[B]
          /\ multiplets[A] = {}

-----------------------------------------------------------------------------
(* get_weighted_coords, lines 148-157                                      *)

\* 10000 * sin(d degrees), d = 0 .. 90
QuarterSin ==
    <<0, 175, 349, 523, 698, 872, 1045, 1219, 1392, 1564, 1736, 1908, 2079,
      2250, 2419, 2588, 2756, 2924, 3090, 3256, 3420, 3584, 3746, 3907, 4067,
      4226, 4384, 4540, 4695, 4848, 5000, 5150, 5299, 5446, 5592, 5736, 5878,
      6018, 6157, 6293, 6428, 6561, 6691, 6820, 6947, 7071, 7193, 7314, 7431,
      7547, 7660, 7771, 7880, 7986, 8090, 8192, 8290, 8387, 8480, 8572, 8660,
      8746, 8829, 8910, 8988, 9063, 9135, 9205, 9272, 9336, 9397, 9455, 9511,
      9563, 9613, 9659, 9703, 9744, 9781, 9816, 9848, 9877, 9903, 9925, 9945,
      9962, 9976, 9986, 9994, 9998, 10000>>

\* sin and cos of a whole number of degrees, in table units
SinDeg(d) ==
    LET e == d % 360
    IN  IF e <= 90 THEN QuarterSin[e + 1]
        ELSE IF e <= 180 THEN QuarterSin[180 - e + 1]
        ELSE IF e <= 270 THEN 0 - QuarterSin[e - 180 + 1]
        ELSE 0 - QuarterSin[360 - e + 1]

CosDeg(d) == SinDeg(d + 90)

\* whole degrees of an angle given in units (the positions aggregated here
\* are whole degrees)
WholeDeg(a) == a \div Deg(1)

\* (C, S) x (cos phi, sin phi) turned by 90 degrees: at least 0 exactly if
\* phi does not lie past the direction of (C, S), within a quarter turn
Cross(S, C, phi) == S * CosDeg(phi) - C * SinDeg(phi)

\* the last phi of lo .. hi with Cross >= 0, given that lo is one
RECURSIVE LastNotPast(_, _, _, _)
LastNotPast(S, C, lo, hi) ==
    IF lo = hi THEN lo
    ELSE LET mid == (lo + hi + 1) \div 2
         IN  IF Cross(S, C, mid) >= 0
             THEN LastNotPast(S, C, mid, hi)
             ELSE LastNotPast(S, C, lo, mid - 1)

\* np.arctan2(S, C) to the nearest whole degree, in (-180, 180];
\* arctan2(0, 0) is 0
Atan2Deg(S, C) ==
    IF S = 0 THEN (IF C >= 0 THEN 0 ELSE 180)
    ELSE LET quarter == IF S > 0 THEN (IF C > 0 THEN 0 ELSE 90)
                        ELSE (IF C < 0 THEN 0 - 180 ELSE 0 - 90)
             below == LastNotPast(S, C, quarter, quarter + 90)
         IN  IF C * CosDeg(below + 1) + S * SinDeg(below + 1)
                  > C * CosDeg(below) + S * SinDeg(below)
             THEN below + 1 ELSE below

RECURSIVE SumTo(_, _)
SumTo(f, n) == IF n = 0 THEN 0 ELSE f[n] + SumTo(f, n - 1)

\* the weights 1 / sigma**2 of line 154, in units of 1 / WeightOne
WeightOne == 600 * 600
Weight(sigma) == WeightOne \div (sigma * sigma)

\* floor of the square root
ISqrt(n) == CHOOSE r \in 0 .. n : r * r <= n /\ n < (r + 1) * (r + 1)

\* astropy's circmean of the angles x (in units) with the given weights:
\* arctan2 of the weighted mean sine and the weighted mean cosine
circmean(x, weights) ==
    LET n == Len(x)
        total == SumTo(weights, n)
        S == RoundDiv(SumTo([i \in 1 .. n |->
                                 weights[i] * SinDeg(WholeDeg(x[i]))], n), total)
        C == RoundDiv(SumTo([i \in 1 .. n |->
                                 weights[i] * CosDeg(WholeDeg(x[i]))], n), total)
    IN  Deg(Atan2Deg(S, C))

\* lines 154-157, x and sigma being sequences of (RA, DEC) pairs; axis = 0
\* works on the RA column and on the DEC column alike
get_weighted_coords(x, sigma) ==
    LET n == Len(x)
        column(c) == [i \in 1 .. n |-> x[i][c]]
        weights(c) == [i \in 1 .. n |-> Weight(sigma[i][c])]
    IN  [weighted_x_ |->
             [c \in 1 .. 2 |-> circmean(column(c), weights(c)) % FullCircle],
         weighted_sigma_ |->
             [c \in 1 .. 2 |-> ISqrt(WeightOne \div SumTo(weights(c), n))]]

-----------------------------------------------------------------------------
(* get_multiplet_weighted_coords, lines 160-179                            *)

\* the members of an entry in the order the loop of line 171 takes them
RECURSIVE InOrder(_)
InOrder(s) ==
    IF s = {} THEN <<>>
    ELSE LET least == CHOOSE i \in s : \A j \in s : i <= j
         IN  <<least>> \o InOrder(s \ {least})

\* lines 168-169 and 173-174: the symmetrized error of an alert
SymmetrizedError(a) ==
    <<(a.RA_ERR_PLUS + a.RA_ERR_MINUS) \div 2,
      (a.DEC_ERR_PLUS + a.DEC_ERR_MINUS) \div 2>>

get_multiplet_weighted_coords(orig_index, multipl_indices, cat) ==
    LET contributors == <<orig_index>> \o InOrder(multipl_indices)
        tmp_x == [i \in DOMAIN contributors |->
                     <<cat[contributors[i]].RA, cat[contributors[i]].DEC>>]
        tmp_sigma == [i \in DOMAIN contributors |->
                         SymmetrizedError(cat[contributors[i]])]
    IN  get_weighted_coords(tmp_x, tmp_sigma)

-----------------------------------------------------------------------------
(* go_through_multiplet_dict, lines 182-204, and                           *)
(* go_through_threshold_multiplet_dict, lines 207-224                      *)

EmptyDict == <<>>

go_through_multiplet_dict(multiplet_dict, cat) ==
    LET keys == { tmp_index \in DOMAIN multiplet_dict :
                      multiplet_dict[tmp_index] # {} }
        coords(tmp_index) ==
            get_multiplet_weighted_coords(tmp_index,
                                          multiplet_dict[tmp_index], cat)
    IN  [weighted_x_ |->
             [tmp_index \in keys |-> coords(tmp_index).weighted_x_],
         weighted_sigma_ |->
             [tmp_index \in keys |-> coords(tmp_index).weighted_sigma_]]

\* line 216 takes element [1] of the threshold's value: the second of a pair
MultipletsOf(threshold_entry) == threshold_entry[2]

\* lines 213-224.  Line 221 stores under tmp_threshold, a name that nothing
\* binds (the loop variable is tmp_area): the first threshold with a
\* non-empty aggregation raises NameError; without one the two empty
\* dictionaries of line 213 are returned
go_through_threshold_multiplet_dict(threshold_multiplet_dict, cat) ==
    LET nonempty ==
            { tmp_area \in DOMAIN threshold_multiplet_dict :
                DOMAIN go_through_multiplet_dict(
                           MultipletsOf(threshold_multiplet_dict[tmp_area]),
                           cat).weighted_x_ # {} }
    IN  IF nonempty # {}
        THEN [kind |-> "raise", exception |-> "NameError"]
        ELSE [kind |-> "return",
              weighted_x_ |-> EmptyDict, weighted_sigma_ |-> EmptyDict]

-----------------------------------------------------------------------------
(* Calls of the aggregation functions                                      *)

\* number of alerts in the catalog that is aggregated
NAggAlerts == 2

\* number of threshold keys
NThresholds == 2

AggRAs == {Deg(10), Deg(180), Deg(359)}
AggDECs == {Deg(0 - 30), 0, Deg(45)}

\* positions in whole degrees, RA in [0, 360), DEC in [-90, 90]
AggAlerts ==
    { [RA |-> ra, DEC |-> dec, RA_ERR_PLUS |-> rp, RA_ERR_MINUS |-> 100,
       DEC_ERR_PLUS |-> 100, DEC_ERR_MINUS |-> dm] :
      ra \in AggRAs, dec \in AggDECs, rp \in {100, 200}, dm \in {100, 200} }

AggIndices == 1 .. NAggAlerts

\* dictionaries as get_multiplet_index_dictionary returns them
AggDicts ==
    { [i \in AggIndices |-> { IF k < i THEN k ELSE k + 1 : k \in others[i] }] :
      others \in [AggIndices -> SUBSET (1 .. NAggAlerts - 1)] }

AggCalls ==
    { [fn |-> "get_multiplet_weighted_coords",
       orig_index |-> i, multipl_indices |-> m] :
      i \in AggIndices, m \in SUBSET AggIndices }
    \cup
    { [fn |-> "go_through_multiplet_dict", multiplet_dict |-> d] :
      d \in AggDicts }
    \cup
    { [fn |-> "go_through_threshold_multiplet_dict",
       threshold_multiplet_dict |-> [t \in DOMAIN ds |-> <<"area", ds[t]>>]] :
      ds \in [1 .. NThresholds -> AggDicts] }

InitAggregate ==
    /\ alerts \in [AggIndices -> AggAlerts]
    /\ call \in AggCalls
    /\ call.fn = "get_multiplet_weighted_coords"
           => call.orig_index \notin call.multipl_indices
    /\ multiplets = NoDict
    /\ unresolved = NoDict
    /\ remove_multiplets_for_indices = {}
    /\ visited = {}
    /\ result = NoResult
    /\ pc = "call"

CallGetMultipletWeightedCoords ==
    /\ pc = "call"
    /\ call.fn = "get_multiplet_weighted_coords"
    /\ result' =
           [kind |-> "return"] @@
           get_multiplet_weighted_coords(call.orig_index,
                                         call.multipl_indices, alerts)
    /\ pc' = "done"
    /\ UNCHANGED <<alerts, multiplets, unresolved,
                   remove_multiplets_for_indices, visited, call>>

CallGoThroughMultipletDict ==
    /\ pc = "call"
    /\ call.fn = "go_through_multiplet_dict"
    /\ result' =
           [kind |-> "return"] @@
           go_through_multiplet_dict(call.multiplet_dict, alerts)
    /\ pc' = "done"
    /\ UNCHANGED <<alerts, multiplets, unresolved,
                   remove_multiplets_for_indices, visited, call>>

CallGoThroughThresholdMultipletDict ==
    /\ pc = "call"
    /\ call.fn = "go_through_threshold_multiplet_dict"
    /\ result' =
           go_through_threshold_multiplet_dict(call.threshold_multiplet_dict,
                                               alerts)
    /\ pc' = "done"
    /\ UNCHANGED <<alerts, multiplets, unresolved,
                   remove_multiplets_for_indices, visited, call>>

NextAggregate ==
    \/ CallGetMultipletWeightedCoords
    \/ CallGoThroughMultipletDict
    \/ CallGoThroughThresholdMultipletDict

SpecAggregate == InitAggregate /\ [][NextAggregate]_vars

-----------------------------------------------------------------------------
(* Claims about the aggregation                                            *)

\* C8: get_multiplet_weighted_coords with an empty member list returns the
\* alert's own (RA, DEC) and its own symmetrized errors unchanged, for RA in
\* [0, 360) and DEC in [-90, 90]
C8_SingleAlertUnchanged ==
    ( /\ pc = "done"
      /\ call.fn = "get_multiplet_weighted_coords"
      /\ call.multipl_indices = {}
      /\ 0 <= alerts[call.orig_index].RA
      /\ alerts[call.orig_index].RA < FullCircle
      /\ Deg(0 - 90) <= alerts[call.orig_index].DEC
      /\ alerts[call.orig_index].DEC <= Deg(90) ) =>
        LET a == alerts[call.orig_index]
        IN  /\ result.weighted_x_ = <<a.RA, a.DEC>>
            /\ result.weighted_sigma_ =
                   <<(a.RA_ERR_PLUS + a.RA_ERR_MINUS) \div 2,
                     (a.DEC_ERR_PLUS + a.DEC_ERR_MINUS) \div 2>>

\* the thresholds of the call whose own aggregation is non-empty
NonEmptyThresholds ==
    { t \in DOMAIN call.threshold_multiplet_dict :
        \E i \in DOMAIN call.threshold_multiplet_dict[t][2] :
            call.threshold_multiplet_dict[t][2][i] # {} }

\* C9: go_through_threshold_multiplet_dict returns normally two mappings
\* whose keys are exactly the thresholds with a non-empty aggregation, each
\* mapped to that threshold's own aggregation
C9_ThresholdAggregation ==
    (pc = "done" /\ call.fn = "go_through_threshold_multiplet_dict") =>
        /\ result.kind = "return"
        /\ DOMAIN result.weighted_x_ = NonEmptyThresholds
        /\ DOMAIN result.weighted_sigma_ = NonEmptyThresholds
        /\ \A t \in NonEmptyThresholds :
              LET own == go_through_multiplet_dict(
                             call.threshold_multiplet_dict[t][2], alerts)
              IN  /\ result.weighted_x_[t] = own.weighted_x_
                  /\ result.weighted_sigma_[t] = own.weighted_sigma_

=============================================================================
